---- MODULE Spec2Model ----
(***************************************************************************)
(* A model of arxiv.py: the Paper request/table object, the Skimmer record *)
(* extractor, the arXiv OAI-PMH harvest loop and the inSPIRE citation      *)
(* enrichment.                                                             *)
(*                                                                         *)
(* Abstractions.  An XML page (soup) is a record of its <record> elements  *)
(* in document order, whether it holds a <ListRecords> element, and the    *)
(* <resumptionToken> under it.  A <record> element (bowl) is the sequence  *)
(* of its descendant elements in document order, each a tag and the text   *)
(* get_text(" ", strip=True) gives for it.  A 503 body and a date string   *)
(* are sequences of lexical tokens, matched as the regular expression and  *)
(* the date parser match them.  A URL is its base and its ordered query    *)
(* parameters.  Time is a clock that only sleep() advances.                *)
(***************************************************************************)
EXTENDS Integers, Sequences, FiniteSets, TLC

VARIABLES
    req,         \* the arguments the caller gave to Paper(...)
    paper,       \* the Paper object (from_, to_, set_, field, single, pile)
    pc,          \* where the caller's script stands
    err,         \* the exception that reached the caller, or "none"
    resume_url,  \* arXiv.resume_url
    pot,         \* Skimmer.pot
    bowls,       \* Skimmer.bowls
    log,         \* every requests.get made: url, time, response
    clock,       \* seconds elapsed
    n,           \* inSPIRE.n, the number of pool processes
    tasks,       \* the pool's tasks, one per chunk of the pile
    pool,        \* state of pool.map in get_citations
    file,        \* the csv file save_to_file writes
    saved        \* the pile as it was when the file was written

vars == <<req, paper, pc, err, resume_url, pot, bowls, log, clock, n, tasks, pool,
          file, saved>>

harvestVars == <<req, paper, pc, err, resume_url, pot, bowls, log, clock>>
citeVars == <<n, tasks, pool>>
postVars == <<file, saved>>

----------------------------------------------------------------------------
(* Bounds *)

\* requests.get calls one harvest may make in the model
MaxGets == 3

----------------------------------------------------------------------------
(* Sequence helpers *)

RECURSIVE Flatten(_)
Flatten(ss) == IF ss = <<>> THEN <<>> ELSE Head(ss) \o Flatten(Tail(ss))

RECURSIVE SelectTag(_, _)
SelectTag(els, tag) ==
    IF els = <<>> THEN <<>>
    ELSE IF Head(els).tag = tag
         THEN <<Head(els).text>> \o SelectTag(Tail(els), tag)
         ELSE SelectTag(Tail(els), tag)

Range(s) == {s[i] : i \in DOMAIN s}

----------------------------------------------------------------------------
(* Paper *)

set_dict == {"physics:astro-ph"}

template ==
    <<"id", "title", "abstract", "author", "setSpec", "categories",
      "created", "updated", "comments", "doi", "datestamp">>

\* the clock date of the run, as <<year, month, day>>
Today == <<2020, 3, 1>>

IsLeap(y) == (y % 4 = 0 /\ y % 100 # 0) \/ y % 400 = 0

DaysIn(y, m) ==
    IF m = 2 THEN (IF IsLeap(y) THEN 29 ELSE 28)
    ELSE IF m \in {4, 6, 9, 11} THEN 30 ELSE 31

\* datetime - timedelta(1)
DayBefore(d) ==
    IF d[3] > 1 THEN <<d[1], d[2], d[3] - 1>>
    ELSE IF d[2] > 1 THEN <<d[1], d[2] - 1, DaysIn(d[1], d[2] - 1)>>
    ELSE <<d[1] - 1, 12, 31>>

\* days_back(i) for the two values the constructor uses; strftime('%Y-%m-%d')
\* of a date is written as the triple <<Y, m, d>>
days_back(i) == IF i = 0 THEN Today ELSE DayBefore(Today)

\* A date string is a sequence of lexical tokens [t, v]: a number, the
\* separator "-", a month name (v its number) or any other word.
Num(v) == [t |-> "num", v |-> v]
Sep == [t |-> "sep", v |-> 0]
Mon(i) == [t |-> "month", v |-> i]
Word == [t |-> "word", v |-> 0]

ValidYMD(y, m, d) ==
    /\ y \in 1..9999
    /\ m \in 1..12
    /\ d \in 1..DaysIn(y, m)

Parsed(d) == [ok |-> TRUE, date |-> d]
ParseFail == [ok |-> FALSE, date |-> <<>>]

\* dateutil's parse on a tokenised string: "Y-m-d" or "Mon d Y"; anything
\* else, or a day that is not in the calendar, is a ValueError (ParseFail)
parsedate(s) ==
    IF /\ Len(s) = 5
       /\ s[1].t = "num" /\ s[2].t = "sep" /\ s[3].t = "num"
       /\ s[4].t = "sep" /\ s[5].t = "num"
    THEN IF ValidYMD(s[1].v, s[3].v, s[5].v)
         THEN Parsed(<<s[1].v, s[3].v, s[5].v>>) ELSE ParseFail
    ELSE IF /\ Len(s) = 3
            /\ s[1].t = "month" /\ s[2].t = "num" /\ s[3].t = "num"
    THEN IF ValidYMD(s[3].v, s[1].v, s[2].v)
         THEN Parsed(<<s[3].v, s[1].v, s[2].v>>) ELSE ParseFail
    ELSE ParseFail

\* check_date_format: parse, then strftime("%Y-%m-%d"); the ValueError of
\* parse is re-raised
check_date_format(date) == parsedate(date)

\* The arguments of Paper(...).  A date argument is None or a string; fields
\* is the string "everything", another string, or a list of names.
NoDate == [given |-> FALSE, s |-> <<>>]
DateArg(s) == [given |-> TRUE, s |-> s]

Everything == [kind |-> "str", str |-> "everything", names |-> <<>>]
FieldStr(x) == [kind |-> "str", str |-> x, names |-> <<>>]
FieldList(l) == [kind |-> "list", str |-> "", names |-> l]

FromArgs ==
    { NoDate,
      DateArg(<<Num(2020), Sep, Num(1), Sep, Num(5)>>),
      DateArg(<<Num(2019), Sep, Num(2), Sep, Num(29)>>) }

ToArgs ==
    { NoDate,
      DateArg(<<Mon(1), Num(7), Num(2020)>>),
      DateArg(<<Word, Num(7)>>) }

SetArgs == {"physics:astro-ph", "cs"}

FieldsArgs ==
    { Everything,
      FieldList(<<"author", "id", "doi">>),
      FieldStr("title") }

Requests ==
    [from_ : FromArgs, to_ : ToArgs, set_ : SetArgs, fields : FieldsArgs]

NoRequest == [from_ |-> NoDate, to_ |-> NoDate, set_ |-> "", fields |-> Everything]

\* PaperInitError without the check of set_ against set_dict
PaperInitError_no_set_check(r) ==
    IF r.from_.given /\ ~check_date_format(r.from_.s).ok THEN "ValueError"
    ELSE IF r.to_.given /\ ~check_date_format(r.to_.s).ok THEN "ValueError"
    ELSE IF r.fields # Everything /\ r.fields.kind # "list" THEN "TypeError"
    ELSE "none"

\* Paper.__init__ raises at the first check that fails, in the order of the
\* code: from_, to_, set_, fields.  "none" when the object is constructed.
PaperInitError(r) ==
    IF r.from_.given /\ ~check_date_format(r.from_.s).ok THEN "ValueError"
    ELSE IF r.to_.given /\ ~check_date_format(r.to_.s).ok THEN "ValueError"
    ELSE IF r.set_ \notin set_dict THEN "ValueError"
    ELSE IF r.fields # Everything /\ r.fields.kind # "list" THEN "TypeError"
    ELSE "none"

\* Cell values of the data frames
NaN == [kind |-> "nan", v |-> <<>>]
Scalar(t) == [kind |-> "str", v |-> <<t>>]
List(ts) == [kind |-> "list", v |-> ts]

\* pd.DataFrame(columns=cols, index=[0]): one row of NaN
NanRow(cols) == [c \in Range(cols) |-> NaN]

\* A data frame is its ordered columns and its rows, each a function of column
DataFrame(cols, rows) == [columns |-> cols, rows |-> rows]

NoPaper ==
    [made |-> FALSE, from_ |-> <<>>, to_ |-> <<>>, set_ |-> "", field |-> <<>>,
     single |-> DataFrame(<<>>, <<>>), pile |-> DataFrame(<<>>, <<>>)]

\* the object Paper.__init__ leaves when no check fails
NewPaper(r) ==
    LET field == IF r.fields = Everything THEN template ELSE r.fields.names
    IN  [made |-> TRUE,
         from_ |-> IF r.from_.given THEN check_date_format(r.from_.s).date
                   ELSE days_back(1),
         to_ |-> IF r.to_.given THEN check_date_format(r.to_.s).date
                 ELSE days_back(0),
         set_ |-> r.set_,
         field |-> field,
         single |-> DataFrame(field, <<NanRow(field)>>),
         pile |-> DataFrame(field, <<>>)]

----------------------------------------------------------------------------
(* Skimmer *)

El(tag, text) == [tag |-> tag, text |-> text]

\* Sample <record> elements: one with a repeated author, one without title,
\* one without id whose title occurs twice
BowlA == <<El("id", "a1"), El("title", "T1"), El("author", "X"), El("author", "Y")>>
BowlB == <<El("id", "a2"), El("author", "Z"), El("comments", "c2")>>
BowlC == <<El("title", "T3"), El("doi", "d3"), El("title", "U3")>>

RecordLists == { <<>>, <<BowlA, BowlB>>, <<BowlC>> }

\* The <ListRecords> part of a page: absent, present without a
\* <resumptionToken>, or present with a token whose text may be empty
NoList == [list |-> FALSE, tok |-> FALSE, text |-> ""]
NoTok == [list |-> TRUE, tok |-> FALSE, text |-> ""]
Tok(text) == [list |-> TRUE, tok |-> TRUE, text |-> text]

TokenChoices == { NoList, NoTok, Tok(""), Tok("tA"), Tok("tB") }

Soup(records, lr) == [records |-> records, lr |-> lr]

Pages == { Soup(rs, lr) : rs \in RecordLists, lr \in TokenChoices }

\* soup.find_all("record")
find_all_record(soup) == soup.records

\* scoop going through the pot from its last soup to its first
scoop_lifo(pot_, bowls_) ==
    Flatten(bowls_ \o [i \in DOMAIN pot_ |->
                          find_all_record(pot_[Len(pot_) + 1 - i])])

\* Skimmer.scoop: the records of every soup of the pot, flattened
scoop(pot_, bowls_) ==
    Flatten(bowls_ \o [i \in DOMAIN pot_ |-> find_all_record(pot_[i])])

\* Skimmer.find: the texts of the elements with that tag, in document order
find(bowl, keyword) == SelectTag(bowl, keyword)

\* ingredient without the collapse of a one-element list to its element
ingredient_no_collapse(bowl, column) ==
    LET found == find(bowl, column)
    IN  IF Len(found) = 0 THEN NaN ELSE List(found)

\* lines 231-237: the cell value made of the list find returns
ingredient(bowl, column) ==
    LET found == find(bowl, column)
    IN  IF Len(found) = 0 THEN NaN
        ELSE IF Len(found) = 1 THEN Scalar(found[1])
        ELSE List(found)

\* fill_single that leaves the buffer as it is where the record has no match
RECURSIVE fill_single_skip_empty(_, _, _)
fill_single_skip_empty(row, bowl, cols) ==
    IF cols = <<>> THEN row
    ELSE fill_single_skip_empty(
            IF find(bowl, Head(cols)) = <<>> THEN row
            ELSE [row EXCEPT ![Head(cols)] = ingredient(bowl, Head(cols))],
            bowl, Tail(cols))

\* lines 229-240: paper.single.at[0, column] = ingredient, column by column
RECURSIVE fill_single(_, _, _)
fill_single(row, bowl, cols) ==
    IF cols = <<>> THEN row
    ELSE fill_single([row EXCEPT ![Head(cols)] = ingredient(bowl, Head(cols))],
                     bowl, Tail(cols))

\* DataFrame.append(other, ignore_index=True): the columns of other that the
\* frame lacks are added after its own, cells without a value are NaN
RECURSIVE NewColumns(_, _)
NewColumns(have, cols) ==
    IF cols = <<>> THEN <<>>
    ELSE IF Head(cols) \in Range(have) THEN NewColumns(have, Tail(cols))
    ELSE <<Head(cols)>> \o NewColumns(have \o <<Head(cols)>>, Tail(cols))

Widen(row, cols) ==
    [c \in Range(cols) |-> IF c \in DOMAIN row THEN row[c] ELSE NaN]

\* frame_append that leaves the columns without a value out of the new rows
frame_append_dropna(df, other) ==
    DataFrame(df.columns,
              df.rows \o [i \in DOMAIN other.rows |->
                  [c \in {x \in DOMAIN other.rows[i] : other.rows[i][x] # NaN}
                      |-> other.rows[i][c]]])

frame_append(df, other) ==
    LET cols == df.columns \o NewColumns(df.columns, other.columns)
    IN  DataFrame(cols,
                  [i \in DOMAIN df.rows |-> Widen(df.rows[i], cols)]
                  \o [i \in DOMAIN other.rows |-> Widen(other.rows[i], cols)])

\* Skimmer.skim: every bowl is written through the one-row frame
\* paper.single and that frame is appended to paper.pile
RECURSIVE skim(_, _)
skim(p, bs) ==
    IF bs = <<>> THEN p
    ELSE LET single == DataFrame(p.single.columns,
                                 <<fill_single(p.single.rows[1], Head(bs),
                                               p.single.columns)>>)
         IN  skim([p EXCEPT !.single = single,
                            !.pile = frame_append(p.pile, single)],
                  Tail(bs))

----------------------------------------------------------------------------
(* arXiv *)

BASE_URL == "http://export.arxiv.org/oai2?verb=ListRecords&"
METADATAPREFIX == "arXiv"

\* A URL is the base and the ordered query parameters appended to it; a
\* parameter value is a string or a formatted date
StrVal(x) == [s |-> x, d |-> <<>>]
DateVal(d) == [s |-> "", d |-> d]
Param(k, v) == [k |-> k, v |-> v]
Url(params) == [base |-> BASE_URL, params |-> params]
NoUrl == [base |-> "", params |-> <<>>]

\* lines 292-301: the query URL
query_url(p) ==
    Url(<<Param("from", DateVal(p.from_)),
          Param("until", DateVal(p.to_)),
          Param("metadataPrefix", StrVal(METADATAPREFIX)),
          Param("set", StrVal(p.set_))>>)

\* token_url that adds the token to the query URL instead of BASE_URL
token_url_on_query(text) ==
    Url(query_url(paper).params \o <<Param("resumptionToken", StrVal(text))>>)

\* line 338
token_url(text) == Url(<<Param("resumptionToken", StrVal(text))>>)

\* check_for_token that takes a <ListRecords> element for a token
check_for_token_any_list(soup) ==
    [found |-> soup.lr.list, text |-> soup.lr.text]

\* check_for_token: soup.find('ListRecords').find("resumptionToken"); a
\* missing element at either step ends in AttributeError and None
check_for_token(soup) ==
    IF soup.lr.list /\ soup.lr.tok
    THEN [found |-> TRUE, text |-> soup.lr.text]
    ELSE [found |-> FALSE, text |-> ""]

\* A 503 body is a sequence of lexical tokens: "Retry after ", a decimal
\* digit, " seconds", or any other text
R == [t |-> "retry", v |-> 0]
D(d) == [t |-> "digit", v |-> d]
S == [t |-> "seconds", v |-> 0]
X == [t |-> "other", v |-> 0]

RECURSIVE Decimal(_)
Decimal(ds) ==
    IF ds = <<>> THEN 0
    ELSE 10 * Decimal(SubSeq(ds, 1, Len(ds) - 1)) + ds[Len(ds)].v

\* the pattern "Retry after (\d+) seconds" matches at i with digits i+1..j
MatchAt(body, i, j) ==
    /\ i \in DOMAIN body /\ j > i /\ j + 1 \in DOMAIN body
    /\ body[i].t = "retry"
    /\ \A k \in (i + 1)..j : body[k].t = "digit"
    /\ body[j + 1].t = "seconds"

\* retry_match whose group holds one digit only
retry_match_one_digit(body) ==
    LET places == {i \in DOMAIN body : \E j \in DOMAIN body : MatchAt(body, i, j)}
    IN  IF places = {} THEN [matched |-> FALSE, t |-> 0]
        ELSE LET i == CHOOSE x \in places : \A y \in places : x <= y
             IN  [matched |-> TRUE, t |-> body[i + 1].v]

\* retry_match that sleeps 0 seconds where the pattern is not found
retry_match_default_zero(body) ==
    LET places == {i \in DOMAIN body : \E j \in DOMAIN body : MatchAt(body, i, j)}
    IN  IF places = {} THEN [matched |-> TRUE, t |-> 0]
        ELSE LET i == CHOOSE x \in places : \A y \in places : x <= y
                 j == CHOOSE y \in DOMAIN body : MatchAt(body, i, y)
             IN  [matched |-> TRUE, t |-> Decimal(SubSeq(body, i + 1, j))]

\* re.match("[\s\S]*?Retry after (\d+) seconds[\s\S]*", text): the leftmost
\* place where the pattern matches, group 1 as an int; matched FALSE is None
retry_match(body) ==
    LET places == {i \in DOMAIN body : \E j \in DOMAIN body : MatchAt(body, i, j)}
    IN  IF places = {} THEN [matched |-> FALSE, t |-> 0]
        ELSE LET i == CHOOSE x \in places : \A y \in places : x <= y
                 j == CHOOSE y \in DOMAIN body : MatchAt(body, i, y)
             IN  [matched |-> TRUE, t |-> Decimal(SubSeq(body, i + 1, j))]

Bodies503 ==
    { <<R, D(5), S>>,
      <<X, R, S, D(9), R, D(1), D(2), S, X>>,
      <<R, D(7), X, S>>,
      <<X>> }

\* Responses of the endpoint to one GET
NoSoup == Soup(<<>>, NoList)
RespOk(page) == [kind |-> "ok", status |-> 200, page |-> page, body |-> <<>>]
Resp503(body) == [kind |-> "status", status |-> 503, page |-> NoSoup, body |-> body]
RespStatus(code) == [kind |-> "status", status |-> code, page |-> NoSoup, body |-> <<>>]
RespRaise == [kind |-> "raise", status |-> 0, page |-> NoSoup, body |-> <<>>]

Responses ==
    { RespOk(page) : page \in Pages }
    \cup { Resp503(body) : body \in Bodies503 }
    \cup { RespStatus(code) : code \in {404, 500} }

\* response.ok
ok(resp) == resp.status < 400

\* branch that takes every response that is not ok for a 503
branch_sleep_on_any(resp) ==
    IF ok(resp) THEN "soup" ELSE "sleep"

\* lines 325, 342, 345: the branch of the loop a response is handled by
branch(resp) ==
    IF ok(resp) THEN "soup"
    ELSE IF resp.status = 503 THEN "sleep"
    ELSE "break"

Got(url, at, resp) == [url |-> url, at |-> at, resp |-> resp]

----------------------------------------------------------------------------
(* The caller's script: Paper(...), then arXiv(paper) *)

HarvestInit ==
    /\ req = NoRequest
    /\ paper = NoPaper
    /\ pc = "start"
    /\ err = "none"
    /\ resume_url = NoUrl
    /\ pot = <<>>
    /\ bowls = <<>>
    /\ log = <<>>
    /\ clock = 0

\* Paper.__init__
PaperInit ==
    /\ pc = "start"
    /\ \E r \in Requests :
        /\ req' = r
        /\ IF PaperInitError(r) = "none"
           THEN /\ paper' = NewPaper(r)
                /\ pc' = "paper"
                /\ err' = err
           ELSE /\ paper' = paper
                /\ pc' = "raised"
                /\ err' = PaperInitError(r)
    /\ UNCHANGED <<resume_url, pot, bowls, log, clock, citeVars, postVars>>

\* arXiv.__init__ up to the call of harvest
ArxivInit ==
    /\ pc = "paper"
    /\ resume_url' = query_url(paper)
    /\ pot' = <<>>
    /\ bowls' = <<>>
    /\ pc' = "harvest"
    /\ UNCHANGED <<req, paper, err, log, clock, citeVars, postVars>>

\* HarvestPage that skims the records of the page as soon as it is fetched
HarvestPage_eager ==
    /\ pc = "harvest"
    /\ Len(log) < MaxGets
    /\ \E resp \in Responses :
        LET token == check_for_token(resp.page)
        IN  /\ branch(resp) = "soup"
            /\ log' = Append(log, Got(resume_url, clock, resp))
            /\ pot' = Append(pot, resp.page)
            /\ paper' = skim(paper, find_all_record(resp.page))
            /\ IF token.found
               THEN /\ resume_url' = token_url(token.text)
                    /\ pc' = pc
               ELSE /\ resume_url' = resume_url
                    /\ pc' = "scoop"
    /\ UNCHANGED <<req, err, bowls, clock, citeVars, postVars>>

\* One turn of the loop of arXiv.harvest whose response is ok: the soup goes
\* to the pot, and its token, if any, makes the next URL
HarvestPage ==
    /\ pc = "harvest"
    /\ Len(log) < MaxGets
    /\ \E resp \in Responses :
        LET token == check_for_token(resp.page)
        IN  /\ branch(resp) = "soup"
            /\ log' = Append(log, Got(resume_url, clock, resp))
            /\ pot' = Append(pot, resp.page)
            /\ IF token.found
               THEN /\ resume_url' = token_url(token.text)
                    /\ pc' = pc
               ELSE /\ resume_url' = resume_url
                    /\ pc' = "scoop"
    /\ UNCHANGED <<req, paper, err, bowls, clock, citeVars, postVars>>

\* One turn whose response has status 503: sleep_off_503, which raises
\* TypeError on t[1] when the pattern did not match
Harvest503 ==
    /\ pc = "harvest"
    /\ Len(log) < MaxGets
    /\ \E resp \in Responses :
        LET m == retry_match(resp.body)
        IN  /\ branch(resp) = "sleep"
            /\ log' = Append(log, Got(resume_url, clock, resp))
            /\ IF m.matched
               THEN /\ clock' = clock + m.t
                    /\ pc' = pc
                    /\ err' = err
               ELSE /\ clock' = clock
                    /\ pc' = "raised"
                    /\ err' = "TypeError"
    /\ UNCHANGED <<req, paper, resume_url, pot, bowls, citeVars, postVars>>

\* One turn whose response is neither ok nor 503: the loop is left
HarvestOther ==
    /\ pc = "harvest"
    /\ Len(log) < MaxGets
    /\ \E resp \in Responses :
        /\ branch(resp) = "break"
        /\ log' = Append(log, Got(resume_url, clock, resp))
    /\ pc' = "scoop"
    /\ UNCHANGED <<req, paper, err, resume_url, pot, bowls, clock, citeVars, postVars>>

\* One turn whose requests.get raises (no connection, timeout): nothing
\* catches it, so it leaves harvest and arXiv.__init__
HarvestRaise ==
    /\ pc = "harvest"
    /\ Len(log) < MaxGets
    /\ log' = Append(log, Got(resume_url, clock, RespRaise))
    /\ pc' = "raised"
    /\ err' = "ConnectionError"
    /\ UNCHANGED <<req, paper, resume_url, pot, bowls, clock, citeVars, postVars>>

\* arXiv.__init__ line 309
Scoop ==
    /\ pc = "scoop"
    /\ bowls' = scoop(pot, bowls)
    /\ pc' = "skim"
    /\ UNCHANGED <<req, paper, err, resume_url, pot, log, clock, citeVars, postVars>>

\* arXiv.__init__ line 310
Skim ==
    /\ pc = "skim"
    /\ paper' = skim(paper, bowls)
    /\ pc' = "done"
    /\ UNCHANGED <<req, err, resume_url, pot, bowls, log, clock, citeVars, postVars>>

----------------------------------------------------------------------------
(* inSPIRE *)

output_format == "hx"
records_in_group == 250
jump_to_record == 1

\* processes a caller may ask for in the model
MaxProcs == 3

\* inSPIRE.BASE_URL.format(**url_dict)
cite_url(arxiv_id, rg, jrec) ==
    [arxiv_id |-> arxiv_id, of |-> output_format, rg |-> rg, jrec |-> jrec]

\* np.array_split(pile, k): k contiguous sections of row numbers, the first
\* (rows % k) of them one longer than the others
section_start(rows, k, i) ==
    (i - 1) * (rows \div k) + (IF i - 1 < rows % k THEN i - 1 ELSE rows % k)

\* array_split with sections of rows \div k rows each, the remainder dropped
array_split_floor(rows, k) ==
    [i \in 1..k |-> [j \in 1..(rows \div k) |-> (i - 1) * (rows \div k) + j]]

array_split(rows, k) ==
    [i \in 1..k |->
        [j \in 1..(section_start(rows, k, i + 1) - section_start(rows, k, i))
            |-> section_start(rows, k, i) + j]]

\* The answers of the search endpoint to one GET: a page with some <pre>
\* entries, or a status that is not ok
CitePageCounts == {0, 3, records_in_group}

CiteResponses ==
    { [kind |-> "ok", status |-> 200, pre |-> k] : k \in CitePageCounts }
    \cup { [kind |-> "status", status |-> c, pre |-> 0] : c \in {404, 503} }

CiteRaised == [kind |-> "raise", status |-> 0, pre |-> 0]

\* A pool task: _harvest_chunk_citations on one chunk.  rows are the row
\* numbers of the chunk, pos the row chunk.apply is at, out the values
\* harvest returned so far, gets the requests harvest made.
NewTask(rows) ==
    [rows |-> rows, pos |-> 1, out |-> <<>>, gets |-> <<>>,
     st |-> "ready", exc |-> "none"]

PoolIdle == [st |-> "idle", exc |-> "none"]

\* print("arxiv_id: {arxiv_id}\n").format(**url_dict), line 457: print
\* returns None, and None has no attribute format
print_format == "AttributeError"

\* inSPIRE.__init__ and get_citations up to pool.map: the pile is split in n
\* chunks and one task per chunk is handed to a pool of n processes
InspireInit ==
    /\ pc = "done"
    /\ pool = PoolIdle
    /\ \E c \in 1..MaxProcs :
        /\ n' = c
        /\ tasks' = [i \in 1..c |->
                        NewTask(array_split(Len(paper.pile.rows), c)[i])]
    /\ pool' = [st |-> "running", exc |-> "none"]
    /\ pc' = "inspire"
    /\ UNCHANGED <<req, paper, err, resume_url, pot, bowls, log, clock, postVars>>

TaskRuns(i) ==
    /\ pc = "inspire"
    /\ pool.st \in {"running", "failed"}
    /\ i \in DOMAIN tasks
    /\ tasks[i].st = "ready"

\* the exception of a task reaches pool.map; the first one is the one kept
TaskFails(i, url, resp, exc) ==
    /\ tasks' = [tasks EXCEPT ![i].gets = Append(@, [url |-> url, resp |-> resp]),
                              ![i].st = "raised",
                              ![i].exc = exc]
    /\ pool' = IF pool.st = "running" THEN [st |-> "failed", exc |-> exc] ELSE pool

\* chunk.apply on a chunk without rows calls harvest for no record
TaskEmpty(i) ==
    /\ TaskRuns(i)
    /\ tasks[i].pos > Len(tasks[i].rows)
    /\ tasks' = [tasks EXCEPT ![i].st = "done"]
    /\ UNCHANGED <<harvestVars, n, pool, postVars>>

\* inSPIRE.harvest(record), first turn of its loop: the GET is answered, and
\* line 457 raises before the response is looked at
LookupGet(i) ==
    /\ TaskRuns(i)
    /\ tasks[i].pos <= Len(tasks[i].rows)
    /\ \E resp \in CiteResponses :
        LET record == paper.pile.rows[tasks[i].rows[tasks[i].pos]]
            url == cite_url(record["id"], records_in_group, jump_to_record)
        IN  TaskFails(i, url, resp, print_format)
    /\ UNCHANGED <<harvestVars, n, postVars>>

\* inSPIRE.harvest(record), first turn of its loop: requests.get raises
LookupRaise(i) ==
    /\ TaskRuns(i)
    /\ tasks[i].pos <= Len(tasks[i].rows)
    /\ LET record == paper.pile.rows[tasks[i].rows[tasks[i].pos]]
           url == cite_url(record["id"], records_in_group, jump_to_record)
       IN  TaskFails(i, url, CiteRaised, "ConnectionError")
    /\ UNCHANGED <<harvestVars, n, postVars>>

\* pool.map re-raises the exception of the first task that failed; leaving
\* the with block terminates the processes; lines 419-421 are not run
MapRaise ==
    /\ pc = "inspire"
    /\ pool.st = "failed"
    /\ pool' = [pool EXCEPT !.st = "raised"]
    /\ err' = pool.exc
    /\ pc' = "raised"
    /\ UNCHANGED <<req, paper, resume_url, pot, bowls, log, clock, n, tasks, postVars>>

----------------------------------------------------------------------------
(* Paper.process, Paper.save_to_file, Paper.load_from_file *)

\* Cells process makes: a timestamp, NaT, and an integer, which is held as
\* that many marks
Time(v) == [kind |-> "time", v |-> v]
NaT == [kind |-> "nat", v |-> <<>>]
IntCell(k) == [kind |-> "int", v |-> [i \in 1..k |-> "1"]]

\* df[name] = values: an existing column is replaced, a new one comes last
set_column(df, name, values) ==
    DataFrame(IF name \in Range(df.columns) THEN df.columns
              ELSE Append(df.columns, name),
              [i \in DOMAIN df.rows |->
                  [c \in Range(df.columns) \cup {name} |->
                      IF c = name THEN values[i] ELSE df.rows[i][c]]])

column(df, name) == [i \in DOMAIN df.rows |-> df.rows[i][name]]

\* pd.to_datetime of one cell: NaN gives NaT, a date text its timestamp; a
\* list is not convertible
to_datetime(cell) ==
    IF cell.kind = "nan" THEN NaT
    ELSE IF cell.kind = "str" THEN Time(cell.v)
    ELSE cell

to_datetime_raises(cell) == IF cell.kind \in {"nan", "str"} THEN "none" ELSE "TypeError"

\* len(x): the characters of a string, the items of a list; NaN is a float
\* and has no len
map_len(cell) ==
    IF cell.kind = "str" THEN IntCell(Len(cell.v[1]))
    ELSE IF cell.kind = "list" THEN IntCell(Len(cell.v))
    ELSE cell

map_len_raises(cell) == IF cell.kind \in {"str", "list"} THEN "none" ELSE "TypeError"

\* x.split(" ") on the category texts of the sample records
split(text) ==
    IF text = "astro-ph.CO hep-th" THEN <<"astro-ph.CO", "hep-th">> ELSE <<text>>

apply_split(cell) == IF cell.kind = "str" THEN List(split(cell.v[1])) ELSE cell

apply_split_raises(cell) == IF cell.kind = "str" THEN "none" ELSE "AttributeError"

\* One statement of the try block of process, on st = [pile, exc]: skipped
\* once an exception is out; KeyError when the source column is missing; the
\* exception of the first cell that cannot be converted; else the assignment
convert(kind, cell) ==
    IF kind = "datetime" THEN to_datetime(cell)
    ELSE IF kind = "len" THEN map_len(cell)
    ELSE apply_split(cell)

convert_raises(kind, cell) ==
    IF kind = "datetime" THEN to_datetime_raises(cell)
    ELSE IF kind = "len" THEN map_len_raises(cell)
    ELSE apply_split_raises(cell)

statement(st, source, target, kind) ==
    IF st.exc # "none" THEN st
    ELSE IF source \notin Range(st.pile.columns)
    THEN [st EXCEPT !.exc = "KeyError"]
    ELSE LET cells == column(st.pile, source)
             bad == {i \in DOMAIN cells : convert_raises(kind, cells[i]) # "none"}
         IN  IF bad # {}
             THEN [st EXCEPT !.exc =
                      convert_raises(kind, cells[CHOOSE i \in bad : \A j \in bad : i <= j])]
             ELSE [st EXCEPT !.pile =
                      set_column(st.pile, target,
                                 [i \in DOMAIN cells |-> convert(kind, cells[i])])]

\* Paper.process: the five statements in the order of the code, in one try
process(pile) ==
    LET s0 == [pile |-> pile, exc |-> "none"]
        s1 == statement(s0, "created", "created", "datetime")
        s2 == statement(s1, "updated", "updated", "datetime")
        s3 == statement(s2, "datestamp", "datestamp", "datetime")
        s4 == statement(s3, "author", "n_authors", "len")
        s5 == statement(s4, "categories", "categories", "split")
    IN  s5

\* to_csv: a cell's field is its text; str(list) for a list, written as the
\* pieces "[", the items, "," between them, "]"; nothing for NaN
RECURSIVE join_items(_)
join_items(ts) ==
    IF Len(ts) <= 1 THEN ts
    ELSE <<Head(ts), ",">> \o join_items(Tail(ts))

csv_field(cell) ==
    IF cell.kind = "list" THEN <<"[">> \o join_items(cell.v) \o <<"]">>
    ELSE cell.v

\* read_csv: an empty field is NaN, any other field the string it holds
csv_cell(field) ==
    IF field = <<>> THEN NaN ELSE [kind |-> "str", v |-> field]

NoFile == [exists |-> FALSE, header |-> <<>>, lines |-> <<>>]

\* DataFrame.to_csv(filename): the header and one line per row, each line
\* led by the row's index, which is its position
to_csv(df) ==
    [exists |-> TRUE,
     header |-> df.columns,
     lines |-> [i \in DOMAIN df.rows |->
                  [c \in Range(df.columns) |-> csv_field(df.rows[i][c])]]]

\* pd.read_csv(filename, index_col=0)
read_csv(f) ==
    DataFrame(f.header,
              [i \in DOMAIN f.lines |->
                  [c \in Range(f.header) |-> csv_cell(f.lines[i][c])]])

\* paper.process()
Process ==
    /\ pc = "done"
    /\ LET r == process(paper.pile)
       IN  /\ paper' = [paper EXCEPT !.pile = r.pile]
           /\ IF r.exc \in {"none", "KeyError"}
              THEN pc' = "processed" /\ err' = err
              ELSE pc' = "raised" /\ err' = r.exc
    /\ UNCHANGED <<req, resume_url, pot, bowls, log, clock, citeVars, postVars>>

\* paper.save_to_file()
SaveToFile ==
    /\ pc = "done"
    /\ file' = to_csv(paper.pile)
    /\ saved' = paper.pile
    /\ pc' = "saved"
    /\ UNCHANGED <<req, paper, err, resume_url, pot, bowls, log, clock, citeVars>>

\* paper.load_from_file()
LoadFromFile ==
    /\ pc = "saved"
    /\ file.exists
    /\ paper' = [paper EXCEPT !.pile = read_csv(file)]
    /\ pc' = "loaded"
    /\ UNCHANGED <<req, err, resume_url, pot, bowls, log, clock, citeVars, postVars>>

PostIdle ==
    /\ file = NoFile
    /\ saved = DataFrame(<<>>, <<>>)

CiteIdle ==
    /\ n = 0
    /\ tasks = <<>>
    /\ pool = PoolIdle

Init == HarvestInit /\ CiteIdle /\ PostIdle

Next ==
    \/ PaperInit
    \/ ArxivInit
    \/ HarvestPage
    \/ Harvest503
    \/ HarvestOther
    \/ HarvestRaise
    \/ Scoop
    \/ Skim

Spec == Init /\ [][Next]_vars

\* one turn of the while loop of harvest, lines 317-347
HarvestTurn == HarvestPage \/ Harvest503 \/ HarvestOther \/ HarvestRaise

\* The loop of harvest runs in one thread: requests.get returns or raises,
\* and the turn it is in is then taken
FairSpec == Spec /\ WF_vars(HarvestTurn)

----------------------------------------------------------------------------
(* The caller's script continued: inSPIRE(paper, n_chunks=c) on a paper     *)
(* whose harvest ended after one page                                      *)

ValidRequests == {r \in Requests : PaperInitError(r) = "none"}

CiteTables == {rs \in RecordLists : rs # <<>>}

Harvested(r, page) ==
    /\ req = r
    /\ paper = skim(NewPaper(r), scoop(<<page>>, <<>>))
    /\ pc = "done"
    /\ err = "none"
    /\ resume_url = query_url(NewPaper(r))
    /\ pot = <<page>>
    /\ bowls = scoop(<<page>>, <<>>)
    /\ log = <<Got(query_url(NewPaper(r)), 0, RespOk(page))>>
    /\ clock = 0

CiteInit ==
    /\ \E r \in ValidRequests, rs \in CiteTables : Harvested(r, Soup(rs, NoTok))
    /\ CiteIdle
    /\ PostIdle

CiteNext ==
    \/ InspireInit
    \/ \E i \in 1..MaxProcs : TaskEmpty(i)
    \/ \E i \in 1..MaxProcs : LookupGet(i)
    \/ \E i \in 1..MaxProcs : LookupRaise(i)
    \/ MapRaise

SpecCite == CiteInit /\ [][CiteNext]_vars

----------------------------------------------------------------------------
(* The caller's script continued: process, or save_to_file and             *)
(* load_from_file, on a paper whose harvest ended after one page           *)

BowlD ==
    <<El("id", "a4"), El("datestamp", "2020-01-06"), El("created", "2020-01-05"),
      El("updated", "2020-01-05"), El("author", "Yasini S"),
      El("categories", "astro-ph.CO hep-th")>>
BowlE ==
    <<El("id", "a5"), El("datestamp", "2020-01-07"), El("created", "2020-01-05"),
      El("updated", "2020-01-06"), El("author", "Oji A"), El("author", "Yasini S"),
      El("categories", "hep-th")>>

PostRecordLists ==
    RecordLists \cup { <<BowlD>>, <<BowlE>>, <<BowlE, BowlD>>, <<BowlB>> }

PostRequests ==
    ValidRequests
    \cup { [from_ |-> NoDate, to_ |-> NoDate, set_ |-> "physics:astro-ph",
            fields |-> FieldList(l)] :
            l \in { <<"id", "created", "author", "categories">>,
                    <<"created", "updated", "datestamp", "author">> } }

PostInit ==
    /\ \E r \in PostRequests, rs \in PostRecordLists : Harvested(r, Soup(rs, NoTok))
    /\ CiteIdle
    /\ PostIdle

PostNext ==
    \/ Process
    \/ SaveToFile
    \/ LoadFromFile

SpecPost == PostInit /\ [][PostNext]_vars

----------------------------------------------------------------------------
(* Properties *)

IsPage(resp) == resp.kind = "ok"
Is503(resp) == resp.kind = "status" /\ resp.status = 503
IsOtherStatus(resp) == resp.kind = "status" /\ resp.status >= 400 /\ resp.status # 503
IsTransportFailure(resp) == resp.kind = "raise"
HasToken(resp) == IsPage(resp) /\ resp.page.lr.list /\ resp.page.lr.tok

\* the pages the endpoint served, in the order of the requests
RECURSIVE PagesOf(_)
PagesOf(lg) ==
    IF lg = <<>> THEN <<>>
    ELSE IF IsPage(Head(lg).resp) THEN <<Head(lg).resp.page>> \o PagesOf(Tail(lg))
    ELSE PagesOf(Tail(lg))

\* their <record> elements: page after page, document order within a page
RECURSIVE RecordsOf(_)
RecordsOf(pages) ==
    IF pages = <<>> THEN <<>>
    ELSE Head(pages).records \o RecordsOf(Tail(pages))

Matches(bowl, c) == {k \in DOMAIN bowl : bowl[k].tag = c}

\* the cardinality rule: no match, absent; one match, its text; more, the
\* list of texts in document order
CellByCardinality(cell, bowl, c) ==
    LET ks == Matches(bowl, c)
    IN  /\ ks = {} => cell = NaN
        /\ Cardinality(ks) = 1 => cell = Scalar(bowl[CHOOSE k \in ks : TRUE].text)
        /\ Cardinality(ks) >= 2 =>
            /\ cell.kind = "list"
            /\ Len(cell.v) = Cardinality(ks)
            /\ \A k \in ks : cell.v[Cardinality({j \in ks : j <= k})] = bowl[k].text

\* rows are the rows of the records recs, one per record, in that order
RowsOf(rows, recs, cols) ==
    /\ Len(rows) = Len(recs)
    /\ \A i \in DOMAIN rows : \A c \in Range(cols) :
        CellByCardinality(rows[i][c], recs[i], c)

\* the integers N for which the body contains "Retry after N seconds"
Hints(body) ==
    { Decimal(SubSeq(body, ij[1] + 1, ij[2])) :
        ij \in {x \in (DOMAIN body) \X (DOMAIN body) : MatchAt(body, x[1], x[2])} }

HarvestLeft == pc \in {"scoop", "skim", "done"}

\* k pages with a token, then one without, and nothing else
C1_Answers ==
    /\ Len(log) >= 1
    /\ \A i \in 1..(Len(log) - 1) : HasToken(log[i].resp)
    /\ IsPage(log[Len(log)].resp) /\ ~HasToken(log[Len(log)].resp)

\* C1: when the endpoint answers k pages that carry a resumption token and
\* then one page without, the harvest makes k+1 GETs (it goes on while the
\* pages carry a token and makes none after the page without) and the table
\* holds one row per record of the k+1 pages, page after page and in
\* document order within a page.
C1_AllPagesInOrder ==
    /\ (pc = "harvest" \/ HarvestLeft) /\ (\A i \in DOMAIN log : HasToken(log[i].resp))
        => pc = "harvest"
    /\ C1_Answers => HarvestLeft
    /\ C1_Answers /\ pc = "done"
        => RowsOf(paper.pile.rows, RecordsOf(PagesOf(log)), paper.field)

C1_Witness ==
    /\ C1_Answers /\ pc = "done" /\ Len(log) = 3
    /\ log[1].resp.page.records = <<BowlC>>
    /\ log[2].resp.page.records = <<>>
    /\ log[3].resp.page.records = <<BowlA, BowlB>>
    /\ Len(paper.pile.rows) = 3

\* C2: after a 503 whose body holds "Retry after N seconds" the next GET goes
\* to the same URL, N seconds later or more; the 503 adds nothing to and takes
\* nothing from the pages kept (the pot is the pages served, in order); the
\* harvest goes on, and a page that follows is handled as any page is.
C2_RetrySameUrlAfterWait ==
    /\ pot = PagesOf(log)
    /\ \A i \in DOMAIN log :
        Is503(log[i].resp) => \A N \in Hints(log[i].resp.body) :
            /\ i < Len(log) =>
                /\ log[i + 1].url = log[i].url
                /\ log[i + 1].at >= log[i].at + N
            /\ i = Len(log) =>
                /\ pc = "harvest" /\ err = "none"
                /\ resume_url = log[i].url
                /\ clock >= log[i].at + N
            /\ i + 1 = Len(log) /\ IsPage(log[i + 1].resp) =>
                IF HasToken(log[i + 1].resp)
                THEN pc = "harvest"
                     /\ resume_url = token_url(log[i + 1].resp.page.lr.text)
                ELSE HarvestLeft

C2_Witness ==
    /\ Len(log) = 3
    /\ Is503(log[1].resp) /\ Hints(log[1].resp.body) = {12}
    /\ Is503(log[2].resp) /\ Hints(log[2].resp.body) = {5}
    /\ IsPage(log[3].resp) /\ log[3].at = 17
    /\ log[3].url = log[1].url

\* C3: a 503 whose body does not hold the pattern is the last response of
\* the harvest, and the harvest ends with an exception.
C3_MalformedHintFails ==
    \A i \in DOMAIN log :
        Is503(log[i].resp) /\ Hints(log[i].resp.body) = {} =>
            /\ i = Len(log)
            /\ pc = "raised"
            /\ err # "none"

C3_Witness ==
    /\ Len(log) = 2
    /\ HasToken(log[1].resp)
    /\ Is503(log[2].resp) /\ log[2].resp.body = <<R, D(7), X, S>>
    /\ pc = "raised"

\* C4: when requests.get fails after k pages were fetched, the harvest has
\* halted and the table holds the rows of the records of those k pages.
C4_PartialPagesKept ==
    (/\ Len(log) >= 1
     /\ IsTransportFailure(log[Len(log)].resp)
     /\ \A i \in 1..(Len(log) - 1) : IsPage(log[i].resp))
        => /\ pc = "raised"
           /\ RowsOf(paper.pile.rows, RecordsOf(PagesOf(log)), paper.field)

\* C5: a status that is neither success nor 503 is the last response of the
\* harvest; no exception is raised, the script goes on to extraction, and
\* the table then holds the rows of the records of the pages fetched before.
C5_OtherStatusEndsStream ==
    \A i \in DOMAIN log :
        IsOtherStatus(log[i].resp) =>
            /\ i = Len(log)
            /\ err = "none"
            /\ HarvestLeft
            /\ pc = "done" =>
                RowsOf(paper.pile.rows, RecordsOf(PagesOf(log)), paper.field)

C5_Witness ==
    /\ Len(log) = 3
    /\ IsOtherStatus(log[3].resp)
    /\ pc = "done"
    /\ Len(paper.pile.rows) = 3

\* C6: in every row of the table, the value of every column is fixed by the
\* number of elements of the record with the column's tag: none, absent;
\* one, its text; two or more, the list of their texts in document order;
\* whatever the column.
C6_CardinalityPolicy ==
    pc = "done" =>
        /\ Len(paper.pile.rows) = Len(bowls)
        /\ \A i \in DOMAIN bowls : \A c \in Range(paper.pile.columns) :
            LET cell == paper.pile.rows[i][c]
                count == Cardinality(Matches(bowls[i], c))
            IN  /\ cell.kind = (IF count = 0 THEN "nan"
                                ELSE IF count = 1 THEN "str" ELSE "list")
                /\ CellByCardinality(cell, bowls[i], c)

C6_Witness ==
    /\ pc = "done"
    /\ \E i \in DOMAIN bowls :
        /\ bowls[i] = BowlC
        /\ paper.pile.rows[i]["title"] = List(<<"T3", "U3">>)
        /\ paper.pile.rows[i]["doi"] = Scalar("d3")
        /\ paper.pile.rows[i]["id"] = NaN

\* the field schema a request asks for
RequestedSchema(r) == IF r.fields.kind = "list" THEN r.fields.names ELSE template

\* C7: after a harvest the columns of the table are the requested schema, in
\* its order, and every row has a value, absent or not, for exactly these.
C7_ColumnsAreSchema ==
    pc = "done" =>
        /\ paper.pile.columns = RequestedSchema(req)
        /\ \A i \in DOMAIN paper.pile.rows :
            DOMAIN paper.pile.rows[i] = Range(RequestedSchema(req))

C7_Witness ==
    /\ pc = "done"
    /\ req.fields = FieldList(<<"author", "id", "doi">>)
    /\ \E i \in DOMAIN paper.pile.rows :
        /\ paper.pile.rows[i]["doi"] = NaN
        /\ paper.pile.rows[i]["author"] = List(<<"X", "Y">>)

\* get_citations is over: pool.map returned or raised
EnrichmentOver == pool.st \in {"merged", "raised"}

\* C8: when the enrichment is over the table has its n rows, in their
\* order, and a column of citation counts with a count for every row.
C8_EveryRowCounted ==
    EnrichmentOver =>
        /\ err = "none"
        /\ "n_citations" \in Range(paper.pile.columns)
        /\ \A i \in DOMAIN paper.pile.rows :
            "n_citations" \in DOMAIN paper.pile.rows[i]

\* C9: a lookup whose GET failed or was answered with a status that is not
\* ok ends without an exception, and the enrichment is not aborted by it.
C9_FailureIsRowLocal ==
    \A i \in DOMAIN tasks :
        (\E g \in DOMAIN tasks[i].gets : tasks[i].gets[g].resp.kind # "ok")
            => /\ tasks[i].exc = "none"
               /\ pool.exc = "none"

InvalidRequest(r) ==
    \/ r.from_.given /\ ~parsedate(r.from_.s).ok
    \/ r.to_.given /\ ~parsedate(r.to_.s).ok
    \/ r.set_ \notin set_dict
    \/ ~(r.fields = Everything \/ r.fields.kind = "list")

\* C10: a request whose start or end date does not parse, whose set is not
\* in the enumeration or whose fields are neither "everything" nor a list
\* ends in an exception out of Paper(...), and no GET is made.
C10_InvalidRequestNoGet ==
    (pc # "start" /\ InvalidRequest(req)) =>
        /\ pc = "raised"
        /\ err \in {"ValueError", "TypeError"}
        /\ paper = NoPaper
        /\ log = <<>>

C10_Witness ==
    /\ pc = "raised"
    /\ req.from_ = NoDate /\ req.to_ = NoDate
    /\ req.set_ = "cs"
    /\ req.fields = Everything
    /\ err = "ValueError"

\* the two tables agree: columns, number of rows, every cell (an absent
\* value is NaN on both sides)
SameTable(a, b) ==
    /\ a.columns = b.columns
    /\ Len(a.rows) = Len(b.rows)
    /\ \A i \in DOMAIN a.rows : \A c \in Range(a.columns) : a.rows[i][c] = b.rows[i][c]

\* C11: a table saved to a file and loaded back has the rows, the columns
\* and the cell values it had, list-valued cells included.
C11_RoundTrip ==
    pc = "loaded" => SameTable(paper.pile, saved)

\* the cardinality of an author cell: absent 0, one name 1, a list its length
AuthorCardinality(cell) ==
    IF cell.kind = "nan" THEN 0
    ELSE IF cell.kind = "str" THEN 1
    ELSE Len(cell.v)

ProcessOver == pc \in {"processed", "raised"}

\* C12: process gives every row an author count equal to the cardinality of
\* its author field (stated for tables that have the date columns, which
\* process converts before it counts).
C12_AuthorCount ==
    (ProcessOver /\ {"created", "updated", "datestamp", "author"} \subseteq Range(paper.field))
        => /\ "n_authors" \in Range(paper.pile.columns)
           /\ \A i \in DOMAIN paper.pile.rows :
                paper.pile.rows[i]["n_authors"]
                    = IntCell(AuthorCardinality(paper.pile.rows[i]["author"]))

ProcessSources == {"created", "updated", "datestamp", "author", "categories"}

\* C13: on a table whose schema omits some of created, updated, datestamp,
\* author and categories, process lets no KeyError out, and every
\* augmentation whose source column is there is applied.
C13_OnlyMissingSkipped ==
    (ProcessOver /\ ~(ProcessSources \subseteq Range(paper.field)))
        => /\ err # "KeyError"
           /\ pc = "processed" =>
                /\ \A c \in {"created", "updated", "datestamp"} \cap Range(paper.field) :
                    \A i \in DOMAIN paper.pile.rows :
                        paper.pile.rows[i][c].kind \in {"time", "nat"}
                /\ "author" \in Range(paper.field)
                    => "n_authors" \in Range(paper.pile.columns)
                /\ "categories" \in Range(paper.field)
                    => \A i \in DOMAIN paper.pile.rows :
                        paper.pile.rows[i]["categories"].kind = "list"

\* the last page served before request i, or 0
LastPageBefore(i) ==
    LET js == {j \in 1..(i - 1) : IsPage(log[j].resp)}
    IN  IF js = {} THEN 0 ELSE CHOOSE j \in js : \A k \in js : k <= j

\* C14: the first GET goes to the base endpoint with from, until,
\* metadataPrefix and set, in that order and with the paper's values; every
\* GET made after a page was served goes to the base endpoint with the one
\* parameter resumptionToken, whose value is the token text of the last page
\* served before it (which carried a token).
C14_RequestUrls ==
    \A i \in DOMAIN log :
        /\ log[i].url.base = BASE_URL
        /\ LET j == LastPageBefore(i)
           IN  IF j = 0
               THEN log[i].url.params =
                      << [k |-> "from", v |-> [s |-> "", d |-> paper.from_]],
                         [k |-> "until", v |-> [s |-> "", d |-> paper.to_]],
                         [k |-> "metadataPrefix", v |-> [s |-> "arXiv", d |-> <<>>]],
                         [k |-> "set", v |-> [s |-> paper.set_, d |-> <<>>]] >>
               ELSE /\ HasToken(log[j].resp)
                    /\ log[i].url.params =
                         << [k |-> "resumptionToken",
                             v |-> [s |-> log[j].resp.page.lr.text, d |-> <<>>]] >>

C14_Witness ==
    /\ Len(log) = 3
    /\ IsPage(log[1].resp) /\ log[1].resp.page.lr.text = "tA"
    /\ Is503(log[2].resp)
    /\ log[3].url.params = <<Param("resumptionToken", StrVal("tA"))>>
    /\ req.from_ # NoDate

\* C15 as claimed: whenever the harvest is about to request a page, the
\* table holds the rows of the records of the pages fetched so far.
C15_TableFilledWhileFetching ==
    pc = "harvest" => Len(paper.pile.rows) = Len(RecordsOf(pot))

\* C15 amended: fetching and extracting do not alternate.  While the loop of
\* harvest runs, and until skim has run, the table is empty and the pages
\* fetched are kept whole in the pot; the table holds the rows of the
\* records of all pages of the pot once skim has run.
C15_ExtractAfterLoop ==
    /\ pc \in {"harvest", "scoop", "skim"} => paper.pile.rows = <<>>
    /\ pc \in {"harvest", "scoop"} => bowls = <<>>
    /\ pc = "done" => RowsOf(paper.pile.rows, RecordsOf(pot), paper.field)

C15_Witness ==
    /\ pc = "harvest"
    /\ Len(pot) = 2
    /\ pot[1].records = <<BowlA, BowlB>>
    /\ pot[2].records = <<BowlC>>
    /\ paper.pile.rows = <<>>

LookupOver(t) == t.st # "ready"

\* C16: in a lookup every GET has the page size records_in_group, every GET
\* after the first has a greater offset than the one before, and the lookup
\* goes on after a page with entries and ends, returning the sum of the
\* counts, after a page without.
C16_AdvancingWindow ==
    \A i \in DOMAIN tasks : \A g \in DOMAIN tasks[i].gets :
        LET get == tasks[i].gets[g]
        IN  /\ get.url.rg = records_in_group
            /\ g > 1 => get.url.jrec > tasks[i].gets[g - 1].url.jrec
            /\ (g = Len(tasks[i].gets) /\ get.resp.kind = "ok") =>
                IF get.resp.pre > 0
                THEN ~LookupOver(tasks[i])
                ELSE tasks[i].exc = "none"

\* the chunks of the tasks, one after the other
ChunksInOrder == Flatten([i \in DOMAIN tasks |-> tasks[i].rows])

LastIsTokenlessPage ==
    /\ Len(log) >= 1
    /\ IsPage(log[Len(log)].resp)
    /\ ~HasToken(log[Len(log)].resp)

\* C18: the loop of harvest makes its next GET as long as it is not left
\* (in the model, until MaxGets are made); after a 503 with a hint or a page
\* with a token it is still in the loop, after a page without a
\* <resumptionToken> element it has left it; and once it is left, or an
\* exception is out, no GET is made any more.
C18_EndsAtFirstTokenlessPage ==
    /\ [](LastIsTokenlessPage => HarvestLeft)
    /\ []((/\ pc \in {"harvest", "scoop", "skim", "done"}
           /\ \A i \in DOMAIN log :
                \/ HasToken(log[i].resp)
                \/ Is503(log[i].resp) /\ Hints(log[i].resp.body) # {})
          => pc = "harvest")
    /\ [][(pc \in {"scoop", "skim", "done", "raised"}) => (log' = log)]_vars
    /\ (pc = "harvest") ~> (pc # "harvest" \/ Len(log) = MaxGets)

C18_Witness ==
    /\ pc = "done"
    /\ Len(log) = 3
    /\ Is503(log[1].resp)
    /\ HasToken(log[2].resp)
    /\ LastIsTokenlessPage

\* C19: a lookup whose GETs were all answered successfully returns, and
\* what it returns is the number of entries the endpoint served for it.
C19_LookupReturnsCount ==
    \A i \in DOMAIN tasks :
        (/\ LookupOver(tasks[i])
         /\ tasks[i].gets # <<>>
         /\ \A g \in DOMAIN tasks[i].gets : tasks[i].gets[g].resp.kind = "ok")
            => /\ tasks[i].exc = "none"
               /\ Len(tasks[i].out) >= 1

\* C20: every row of the table is the row skim makes of its record alone,
\* with a fresh one-row buffer: whatever came through the buffer before
\* leaves no trace, and a column without a match in the record is absent in
\* its row.
C20_RowOfFragmentAlone ==
    pc = "done" =>
        \A i \in DOMAIN bowls :
            /\ paper.pile.rows[i] = skim(NewPaper(req), <<bowls[i]>>).pile.rows[1]
            /\ \A c \in Range(paper.field) :
                Matches(bowls[i], c) = {} => paper.pile.rows[i][c] = NaN

C20_Witness ==
    /\ pc = "done"
    /\ bowls = <<BowlA, BowlB, BowlC, BowlA, BowlB>>
    /\ paper.pile.rows[1]["title"] = Scalar("T1")
    /\ paper.pile.rows[2]["title"] = NaN
    /\ paper.pile.rows[4] = paper.pile.rows[1]

====
